---- MODULE Spec2Model ----
(***************************************************************************)
(* rainman/helpers/decorators.py: the crossdomain decorator.               *)
(*                                                                         *)
(* crossdomain(origin, methods, headers, max_age, attach_to_all,           *)
(* automatic_options) normalises its arguments once, at decoration time,   *)
(* and returns a decorator; the decorated view function answers every      *)
(* request by obtaining a response (Flask's default OPTIONS response or    *)
(* the view's return value passed through make_response) and, unless it    *)
(* returns early, assigning the Access-Control-* headers on it.            *)
(*                                                                         *)
(* Python byte strings are modelled as sequences of one-character strings, *)
(* so that upper(), sorted(), join() and str() are computed character by   *)
(* character.  Header keys and response bodies, which the decorator only   *)
(* carries around, are TLA+ strings.                                       *)
(***************************************************************************)
EXTENDS Integers, Sequences, FiniteSets, TLC

VARIABLES
    cfg,        \* the arguments the decoration site passed to crossdomain()
    policy,     \* the closure of crossdomain(): its rebound locals (lines 30-37)
    provide_automatic_options,  \* f.provide_automatic_options (line 64)
    request,    \* flask.request / current_app context of the request being answered
    calls,      \* the argument tuples f was called with while answering it
    obtained,   \* resp as first bound at line 49 or 51, before any header is assigned
    attached,   \* whether wrapped_function went past the early return of line 53
    resp        \* the response wrapped_function returned

vars == <<cfg, policy, provide_automatic_options, request, calls, obtained, attached, resp>>

-----------------------------------------------------------------------------
(* Bounds of the model *)

\* longest collection passed as methods or headers
MaxList == 2

-----------------------------------------------------------------------------
(* Python values *)

None == [t |-> "None"]
PyStr(s) == [t |-> "str", v |-> s]
PyList(l) == [t |-> "list", v |-> l]
PyInt(n) == [t |-> "int", v |-> n]
\* datetime.timedelta keeps days, seconds and microseconds
Timedelta(d, s, us) == [t |-> "timedelta", days |-> d, seconds |-> s, microseconds |-> us]
\* a float that is a whole number of microseconds: its integral part and the
\* microseconds of its fraction (fewer than 10^6)
PyFloat(whole, us) == [t |-> "float", whole |-> whole, us |-> us]

\* isinstance(x, basestring)
IsBasestring(x) == x.t = "str"

\* the characters of the model in ASCII order; upper case directly before lower case
Ascii ==
    <<" ", "*", ",", "-", ".", "/",
      "0", "1", "2", "3", "4", "5", "6", "7", "8", "9", ":",
      "A", "B", "C", "D", "E", "F", "G", "H", "I", "J", "K", "L", "M",
      "N", "O", "P", "Q", "R", "S", "T", "U", "V", "W", "X", "Y", "Z",
      "a", "b", "c", "d", "e", "f", "g", "h", "i", "j", "k", "l", "m",
      "n", "o", "p", "q", "r", "s", "t", "u", "v", "w", "x", "y", "z">>

Ord(c) == CHOOSE i \in 1..Len(Ascii) : Ascii[i] = c

IsLower(c) == Ord(c) >= Ord("a") /\ Ord(c) <= Ord("z")

\* str.upper(): lower-case letters are replaced, every other character is kept
upper(s) == [i \in 1..Len(s) |-> IF IsLower(s[i]) THEN Ascii[Ord(s[i]) - 26] ELSE s[i]]

\* s < t on Python byte strings: lexicographic by character code
RECURSIVE StrLess(_, _)
StrLess(s, t) ==
    IF t = <<>> THEN FALSE
    ELSE IF s = <<>> THEN TRUE
    ELSE IF Head(s) = Head(t) THEN StrLess(Tail(s), Tail(t))
    ELSE Ord(Head(s)) < Ord(Head(t))

\* x put into the ascending list l, after the elements equal to it
RECURSIVE Insert(_, _)
Insert(x, l) ==
    IF l = <<>> THEN <<x>>
    ELSE IF StrLess(x, Head(l)) THEN <<x>> \o l
    ELSE <<Head(l)>> \o Insert(x, Tail(l))

\* sorted(l): an ascending list of the same elements
RECURSIVE sorted(_)
sorted(l) == IF l = <<>> THEN <<>> ELSE Insert(l[Len(l)], sorted(SubSeq(l, 1, Len(l) - 1)))

\* sep.join(l)
RECURSIVE join(_, _)
join(sep, l) ==
    IF l = <<>> THEN <<>>
    ELSE IF Len(l) = 1 THEN l[1]
    ELSE l[1] \o sep \o join(sep, Tail(l))

CommaSpace == <<",", " ">>

Digit(d) == Ascii[Ord("0") + d]

\* str(n) of a non-negative int
RECURSIVE StrOfInt(_)
StrOfInt(n) == IF n < 10 THEN <<Digit(n)>> ELSE StrOfInt(n \div 10) \o <<Digit(n % 10)>>

\* the digits of the fraction num/den (num < den, den a power of ten), without
\* trailing zeros
RECURSIVE FracDigits(_, _)
FracDigits(num, den) ==
    IF num = 0 THEN <<>>
    ELSE <<Digit((num * 10) \div den)>> \o FracDigits((num * 10) % den, den)

\* str(x) of a float: the shortest decimal with at least one digit after the point
\* (exact for the values of the model, which have fewer than twelve digits)
StrOfFloat(whole, us) ==
    StrOfInt(whole) \o <<".">> \o (IF us = 0 THEN <<"0">> ELSE FracDigits(us, 1000000))

\* str(x)
str(x) ==
    CASE x.t = "int" -> StrOfInt(x.v)
      [] x.t = "float" -> StrOfFloat(x.whole, x.us)
      [] x.t = "str" -> x.v

\* timedelta.total_seconds(): a float,
\* (microseconds + (seconds + days * 24 * 3600) * 10**6) / 10**6
total_seconds(td) == PyFloat(td.days * 24 * 3600 + td.seconds, td.microseconds)

-----------------------------------------------------------------------------
(* The arguments decoration sites pass *)

RECURSIVE ListsUpTo(_, _)
ListsUpTo(S, n) ==
    IF n = 0 THEN {<<>>}
    ELSE ListsUpTo(S, n - 1)
            \cup {<<x>> \o l : x \in S, l \in {m \in ListsUpTo(S, n - 1) : Len(m) = n - 1}}

Star == <<"*">>
MethodNames == {<<"g", "e", "t">>, <<"P", "O", "S", "T">>}
HeaderNames == {<<"x", "-", "i", "d">>, <<"A", "c", "c", "e", "p", "t">>}

AIo == <<"a", ".", "i", "o">>
BIo == <<"b", ".", "i", "o">>
Origins == {PyStr(Star), PyList(<<>>), PyList(<<AIo>>), PyList(<<BIo, AIo>>)}
Methods == {None} \cup {PyList(l) : l \in ListsUpTo(MethodNames, MaxList)}
Headers ==
    {None, PyStr(<<"x", "-", "i", "d">>)}
        \cup {PyList(l) : l \in ListsUpTo(HeaderNames, MaxList)}

\* max_age=21600 is the default
DefaultMaxAge == 21600
MaxAges == {PyInt(DefaultMaxAge), Timedelta(1, 30, 0)}

Configs ==
    [origin : Origins, methods : Methods, headers : Headers, max_age : MaxAges,
     attach_to_all : BOOLEAN, automatic_options : BOOLEAN]

-----------------------------------------------------------------------------
(* crossdomain(): the normalisation of the arguments, lines 30-37 *)

\* NormMethods without the upper() call
NormMethods_NoUpper(methods) ==
    IF methods # None THEN PyStr(join(CommaSpace, sorted(methods.v))) ELSE methods

\* if methods is not None: methods = ', '.join(sorted(x.upper() for x in methods))
NormMethods(methods) ==
    IF methods # None
    THEN PyStr(join(CommaSpace, sorted([i \in 1..Len(methods.v) |-> upper(methods.v[i])])))
    ELSE methods

\* NormHeaders with the sorted() call that NormMethods has
NormHeaders_Sorted(headers) ==
    IF headers # None /\ ~IsBasestring(headers)
    THEN PyStr(join(CommaSpace, sorted([i \in 1..Len(headers.v) |-> upper(headers.v[i])])))
    ELSE headers

\* if headers is not None and not isinstance(headers, basestring):
\*     headers = ', '.join(x.upper() for x in headers)
NormHeaders(headers) ==
    IF headers # None /\ ~IsBasestring(headers)
    THEN PyStr(join(CommaSpace, [i \in 1..Len(headers.v) |-> upper(headers.v[i])]))
    ELSE headers

\* NormOrigin joining with ',' instead of ', '
NormOrigin_NoSpace(origin) ==
    IF ~IsBasestring(origin) THEN PyStr(join(<<",">>, origin.v)) ELSE origin

\* if not isinstance(origin, basestring): origin = ', '.join(origin)
NormOrigin(origin) ==
    IF ~IsBasestring(origin) THEN PyStr(join(CommaSpace, origin.v)) ELSE origin

\* if isinstance(max_age, timedelta): max_age = max_age.total_seconds()
NormMaxAge(max_age) ==
    IF max_age.t = "timedelta" THEN total_seconds(max_age) ELSE max_age

crossdomain(c) ==
    [methods |-> NormMethods(c.methods),
     headers |-> NormHeaders(c.headers),
     origin |-> NormOrigin(c.origin),
     max_age |-> NormMaxAge(c.max_age),
     attach_to_all |-> c.attach_to_all,
     automatic_options |-> c.automatic_options]

-----------------------------------------------------------------------------
(* Flask: responses, the view function, the request *)

ACAO == "Access-Control-Allow-Origin"
ACAM == "Access-Control-Allow-Methods"
ACMA == "Access-Control-Max-Age"
ACAH == "Access-Control-Allow-Headers"
CORSKeys == {ACAO, ACAM, ACMA, ACAH}

TextHtml == <<"t", "e", "x", "t", "/", "h", "t", "m", "l">>

Response(status, body, headers) == [status |-> status, body |-> body, headers |-> headers]

\* h[key] = value on a werkzeug Headers object: the key then has this one value
SetHeader(h, key, value) ==
    [k \in DOMAIN h \cup {key} |-> IF k = key THEN value ELSE h[k]]

\* h[key] on a werkzeug Headers object: keys compare without regard to case
GetHeader(h, key) ==
    h[CHOOSE k \in DOMAIN h : k = key \/ (k = "Allow" /\ key = "allow")]

\* the Allow values the URL map gives for the route of the request
AllowValues ==
    {<<"G", "E", "T", ",", " ", "O", "P", "T", "I", "O", "N", "S">>,
     <<"O", "P", "T", "I", "O", "N", "S", ",", " ", "P", "O", "S", "T">>}

\* current_app.make_default_options_response(): an empty 200 response whose
\* Allow header enumerates the methods of the route
make_default_options_response(allow) ==
    Response(200, "", [k \in {"Content-Type", "Allow"} |->
                          IF k = "Allow" THEN allow ELSE TextHtml])

\* the argument tuples wrapped_function is called with
Args == {<<1>>, <<2>>}

\* the view function: by its argument it returns a body string, or a response
\* object on which it has set headers of its own, the Access-Control-* ones
\* among them
f(args) ==
    CASE args = <<1>> -> [t |-> "str", v |-> "ok"]
      [] args = <<2>> ->
            [t |-> "response",
             v |-> Response(201, "made",
                     [k \in {"Content-Type", "X-Trace"} \cup CORSKeys |->
                        CASE k = "Content-Type" -> TextHtml
                          [] k = "X-Trace" -> <<"7">>
                          [] k = ACAO -> <<"o", "l", "d", ".", "i", "o">>
                          [] k = ACAM -> <<"P", "U", "T">>
                          [] k = ACMA -> <<"1">>
                          [] k = ACAH -> <<"X", "-", "O", "L", "D">>])]

\* flask.make_response(rv): a response object is returned as it is, a string
\* becomes the body of a 200 response
make_response(rv) ==
    CASE rv.t = "response" -> rv.v
      [] rv.t = "str" -> Response(200, rv.v, [k \in {"Content-Type"} |-> TextHtml])

RequestMethods == {"GET", "POST", "OPTIONS"}

Requests == [method : RequestMethods, args : Args, allow : AllowValues]

NoRequest == [method |-> "none"]
NoResponse == [status |-> 0]

-----------------------------------------------------------------------------
(* wrapped_function, lines 47-62 *)

\* get_methods(), lines 39-44
get_methods(p, allow) ==
    IF p.methods # None
    THEN p.methods.v
    ELSE GetHeader(make_default_options_response(allow).headers, "allow")

\* line 48 comparing the method with 'options'
AutomaticOptions_LowerCase(p, method) == p.automatic_options /\ method = "options"

\* line 48: if automatic_options and request.method == 'OPTIONS'
AutomaticOptions(p, method) == p.automatic_options /\ method = "OPTIONS"

\* line 52 returning early for GET only
ReturnsUnmodified_GetOnly(p, method) == ~p.attach_to_all /\ method = "GET"

\* line 52 without the test of the method
ReturnsUnmodified_AnyMethod(p, method) == ~p.attach_to_all

\* line 52: if not attach_to_all and request.method != 'OPTIONS': return resp
ReturnsUnmodified(p, method) == ~p.attach_to_all /\ method # "OPTIONS"

\* h.setdefault(key, value): a value already there is kept
SetDefault(h, key, value) == IF key \in DOMAIN h THEN h ELSE SetHeader(h, key, value)

\* lines 55-61 with h.setdefault(key, value) in place of h[key] = value
AttachHeaders_SetDefault(p, h, allow) ==
    LET h1 == SetDefault(h, ACAO, p.origin.v)
        h2 == SetDefault(h1, ACAM, get_methods(p, allow))
        h3 == SetDefault(h2, ACMA, str(p.max_age))
    IN  IF p.headers # None THEN SetDefault(h3, ACAH, p.headers.v) ELSE h3

\* lines 55-61 binding a new header mapping instead of assigning into resp.headers
AttachHeaders_Fresh(p, h, allow) ==
    LET h1 == SetHeader(<<>>, ACAO, p.origin.v)
        h2 == SetHeader(h1, ACAM, get_methods(p, allow))
        h3 == SetHeader(h2, ACMA, str(p.max_age))
    IN  IF p.headers # None THEN SetHeader(h3, ACAH, p.headers.v) ELSE h3

\* lines 55-61 with line 61 outside the test of line 60
AttachHeaders_AlwaysAllowHeaders(p, h, allow) ==
    LET h1 == SetHeader(h, ACAO, p.origin.v)
        h2 == SetHeader(h1, ACAM, get_methods(p, allow))
        h3 == SetHeader(h2, ACMA, str(p.max_age))
    IN  SetHeader(h3, ACAH, IF p.headers # None THEN p.headers.v ELSE <<"N", "o", "n", "e">>)

\* lines 55-61: the assignments to h = resp.headers
AttachHeaders(p, h, allow) ==
    LET h1 == SetHeader(h, ACAO, p.origin.v)
        h2 == SetHeader(h1, ACAM, get_methods(p, allow))
        h3 == SetHeader(h2, ACMA, str(p.max_age))
    IN  IF p.headers # None THEN SetHeader(h3, ACAH, p.headers.v) ELSE h3

wrapped_function(r) ==
    LET first == IF AutomaticOptions(policy, r.method)
                 THEN make_default_options_response(r.allow)
                 ELSE make_response(f(r.args))
    IN  /\ request' = r
        /\ calls' = IF AutomaticOptions(policy, r.method) THEN <<>> ELSE <<r.args>>
        /\ obtained' = first
        /\ attached' = ~ReturnsUnmodified(policy, r.method)
        /\ resp' = IF ReturnsUnmodified(policy, r.method)
                   THEN first
                   ELSE [first EXCEPT !.headers = AttachHeaders(policy, first.headers, r.allow)]
        /\ UNCHANGED <<cfg, policy, provide_automatic_options>>

-----------------------------------------------------------------------------
(* The program: a view decorated once, then answering requests *)

Init ==
    /\ cfg \in Configs
    /\ policy = crossdomain(cfg)
    /\ provide_automatic_options = FALSE
    /\ request = NoRequest
    /\ calls = <<>>
    /\ obtained = NoResponse
    /\ attached = FALSE
    /\ resp = NoResponse

Next == \E r \in Requests : wrapped_function(r)

Spec == Init /\ [][Next]_vars

-----------------------------------------------------------------------------
(* The claims *)

\* a request has been answered
Answered == request # NoRequest

\* a and b have the same status, the same body, and the same headers apart
\* from the keys in K
SameExcept(a, b, K) ==
    /\ a.status = b.status
    /\ a.body = b.body
    /\ DOMAIN a.headers \ K = DOMAIN b.headers \ K
    /\ \A k \in DOMAIN a.headers \ K : a.headers[k] = b.headers[k]

\* the response carries header k with value v
Carries(r, k, v) == k \in DOMAIN r.headers /\ r.headers[k] = v

Get == <<"g", "e", "t">>
Post == <<"P", "O", "S", "T">>
XId == <<"x", "-", "i", "d">>
Accept == <<"A", "c", "c", "e", "p", "t">>

\* C1: an OPTIONS request to a handler decorated with automatic_options=True
\* never invokes the wrapped handler, and the response returned is Flask's
\* default OPTIONS response (empty, status 200, Allow listing the route's
\* methods), whatever the rest of the policy is.
C1_AutomaticOptionsSkipsHandler ==
    (Answered /\ cfg.automatic_options /\ request.method = "OPTIONS") =>
        /\ calls = <<>>
        /\ obtained = make_default_options_response(request.allow)
        /\ SameExcept(resp, obtained, CORSKeys)
        /\ resp.status = 200 /\ resp.body = ""
        /\ Carries(resp, "Allow", request.allow)

C1_Witness ==
    /\ Answered /\ cfg.automatic_options /\ request.method = "OPTIONS"
    /\ ~cfg.attach_to_all /\ cfg.methods # None /\ cfg.headers # None
    /\ calls = <<>> /\ resp.status = 200

\* C2: with attach_to_all=False a request whose method is not OPTIONS gets the
\* handler's coerced response back unmodified: no Access-Control-* header is
\* added or changed.
C2_NonOptionsUnmodified ==
    (Answered /\ ~cfg.attach_to_all /\ request.method # "OPTIONS") =>
        /\ resp = make_response(f(request.args))
        /\ resp = obtained
        /\ (request.args = <<1>> => DOMAIN resp.headers \cap CORSKeys = {})

C2_Witness ==
    /\ Answered /\ ~cfg.attach_to_all /\ request.method = "POST"
    /\ request.args = <<1>> /\ cfg.headers # None
    /\ DOMAIN resp.headers = {"Content-Type"}

\* the value the decoration site configured as origin: the string itself, or
\* the strings of the collection separated by ', '
ConfiguredOrigin == IF cfg.origin.t = "str" THEN cfg.origin.v ELSE join(CommaSpace, cfg.origin.v)

\* C3: a GET request with attach_to_all=True always gets
\* Access-Control-Allow-Origin equal to the configured origin, whatever the
\* handler returned (also when the handler had set that header itself), for
\* an origin given as one string and for one given as a collection.
C3_GetCarriesOrigin ==
    (Answered /\ cfg.attach_to_all /\ request.method = "GET") =>
        Carries(resp, ACAO, ConfiguredOrigin)

C3_Witness ==
    /\ Answered /\ cfg.attach_to_all /\ request.method = "GET"
    /\ cfg.origin = PyList(<<BIo, AIo>>) /\ request.args = <<2>>
    /\ resp.headers[ACAO] = <<"b", ".", "i", "o", ",", " ", "a", ".", "i", "o">>

\* the whole seconds the decoration site configured as max_age
ConfiguredSeconds ==
    IF cfg.max_age.t = "int" THEN cfg.max_age.v
    ELSE cfg.max_age.days * 24 * 3600 + cfg.max_age.seconds

\* C4: whenever the headers are attached, Access-Control-Max-Age is the
\* configured number of seconds written as a decimal integer, for max_age given
\* as an int and for max_age given as a timedelta.
C4_MaxAgeIsIntegerSeconds ==
    attached => Carries(resp, ACMA, StrOfInt(ConfiguredSeconds))

\* C5 as stated: with headers unset Access-Control-Allow-Headers is absent from
\* every response; with headers set it is present whenever the headers are
\* attached.
C5_AllowHeadersAbsentWhenUnset ==
    Answered =>
        /\ cfg.headers = None => ACAH \notin DOMAIN resp.headers
        /\ (cfg.headers # None /\ attached) => ACAH \in DOMAIN resp.headers

\* C5 as amended: with headers unset the decorator neither adds nor changes
\* Access-Control-Allow-Headers: the response returned carries it exactly when
\* the handler's own response (or the default OPTIONS response) carried it, and
\* with that value; with headers set it is present whenever the headers are
\* attached.
C5_AllowHeadersNotAddedWhenUnset ==
    Answered =>
        /\ cfg.headers = None =>
              /\ ACAH \in DOMAIN resp.headers <=> ACAH \in DOMAIN obtained.headers
              /\ ACAH \in DOMAIN resp.headers => resp.headers[ACAH] = obtained.headers[ACAH]
        /\ (cfg.headers # None /\ attached) => ACAH \in DOMAIN resp.headers

C5_Witness ==
    /\ Answered /\ attached /\ cfg.headers = None
    /\ ACAO \in DOMAIN resp.headers
    /\ ACAH \notin DOMAIN resp.headers

\* C6: whenever the headers are attached, Access-Control-Allow-Methods is the
\* configured methods, in upper case (in ascending order, separated by ', '),
\* when methods was configured; otherwise it is the Allow header of the default
\* OPTIONS response of the route at the time of the call, so that an
\* automatically answered OPTIONS request carries the same value in Allow and
\* in Access-Control-Allow-Methods.
C6_AllowMethods ==
    attached =>
        /\ cfg.methods # None =>
              Carries(resp, ACAM,
                  join(CommaSpace, sorted([i \in 1..Len(cfg.methods.v) |-> upper(cfg.methods.v[i])])))
        /\ cfg.methods = None => Carries(resp, ACAM, request.allow)
        /\ (cfg.methods = None /\ cfg.automatic_options /\ request.method = "OPTIONS") =>
              resp.headers[ACAM] = resp.headers["Allow"]

C6_Witness ==
    /\ attached /\ cfg.methods = PyList(<<Post, Get>>)
    /\ resp.headers[ACAM] = <<"G", "E", "T", ",", " ", "P", "O", "S", "T">>

\* C7: a request that is not an automatically answered OPTIONS request invokes
\* the wrapped handler exactly once, with the caller's arguments, and gets its
\* return value coerced to a response; an OPTIONS request with
\* automatic_options=False does so and still receives the Access-Control-*
\* headers, also with attach_to_all=False.
C7_HandlerInvokedOnce ==
    (Answered /\ ~(cfg.automatic_options /\ request.method = "OPTIONS")) =>
        /\ calls = <<request.args>>
        /\ obtained = make_response(f(request.args))
        /\ SameExcept(resp, obtained, CORSKeys)
        /\ request.method = "OPTIONS" =>
              /\ Carries(resp, ACAO, ConfiguredOrigin)
              /\ {ACAM, ACMA} \subseteq DOMAIN resp.headers

C7_Witness ==
    /\ Answered /\ ~cfg.automatic_options /\ ~cfg.attach_to_all
    /\ request.method = "OPTIONS" /\ request.args = <<1>>
    /\ calls = <<(<<1>>)>>
    /\ resp.body = "ok" /\ ACAO \in DOMAIN resp.headers

\* the Access-Control-* values of a response that the policy alone decides
PolicyValues(r) ==
    [k \in {ACAO, ACMA} \cup (IF cfg.headers # None THEN {ACAH} ELSE {})
                        \cup (IF cfg.methods # None THEN {ACAM} ELSE {}) |-> r.headers[k]]

\* C8: the policy is fixed at decoration time and nothing is carried from one
\* request to the next: answering a request leaves the policy as it was, any
\* two successive responses that got the headers got the same
\* Access-Control-Allow-Origin, -Max-Age, -Allow-Headers and configured
\* -Allow-Methods, and whether a request gets the headers is decided by its
\* method and the policy alone.
C8_PolicyFixed ==
    [][ /\ policy' = policy /\ cfg' = cfg
        /\ (attached /\ attached') => PolicyValues(resp') = PolicyValues(resp)
        /\ attached' <=> (cfg.attach_to_all \/ request'.method = "OPTIONS")
        /\ attached' => {ACAO, ACAM, ACMA} \subseteq DOMAIN resp'.headers
        /\ ~attached' => resp' = obtained' ]_vars

C8_Witness ==
    /\ attached /\ request.method = "GET" /\ request.args = <<2>>
    /\ cfg.methods # None /\ cfg.headers # None
    /\ PolicyValues(resp) # PolicyValues(obtained)

\* C9 as stated: with headers configured and the headers attached,
\* Access-Control-Allow-Headers is the configured names in upper case, in the
\* configured order, for headers given as a collection and for headers given as
\* one string.
C9_AllowHeadersUpperCase ==
    (attached /\ cfg.headers # None) =>
        Carries(resp, ACAH,
            IF cfg.headers.t = "list"
            THEN join(CommaSpace, [i \in 1..Len(cfg.headers.v) |-> upper(cfg.headers.v[i])])
            ELSE upper(cfg.headers.v))

\* C9 as amended: with headers configured and the headers attached,
\* Access-Control-Allow-Headers is, for headers given as a collection, its
\* names in upper case, in the configured order, separated by ', '; for headers
\* given as one string it is that string as given, not put in upper case.
C9_AllowHeadersUpperCaseOfCollection ==
    (attached /\ cfg.headers # None) =>
        Carries(resp, ACAH,
            IF cfg.headers.t = "list"
            THEN join(CommaSpace, [i \in 1..Len(cfg.headers.v) |-> upper(cfg.headers.v[i])])
            ELSE cfg.headers.v)

C9_Witness ==
    /\ attached /\ cfg.headers = PyList(<<XId, Accept>>)
    /\ resp.headers[ACAH] =
          <<"X", "-", "I", "D", ",", " ", "A", "C", "C", "E", "P", "T">>

\* the keys the decorator assigns under the policy
AssignedKeys == {ACAO, ACAM, ACMA} \cup (IF cfg.headers # None THEN {ACAH} ELSE {})

\* C10: when the decorator attaches the headers it changes only
\* Access-Control-Allow-Origin, -Allow-Methods, -Max-Age and, with headers
\* configured, -Allow-Headers: the status, the body and every other header of
\* the response it obtained stay as they were, and a value the handler had set
\* for one of those keys is replaced by the policy's.
C10_OnlyCorsKeysChange ==
    attached =>
        /\ SameExcept(resp, obtained, AssignedKeys)
        /\ AssignedKeys \subseteq DOMAIN resp.headers
        /\ resp.headers[ACAO] = policy.origin.v
        /\ resp.headers[ACAM] = get_methods(policy, request.allow)
        /\ resp.headers[ACMA] = str(policy.max_age)
        /\ cfg.headers # None => resp.headers[ACAH] = policy.headers.v

C10_Witness ==
    /\ attached /\ request.args = <<2>> /\ cfg.headers = None
    /\ Carries(resp, "X-Trace", <<"7">>) /\ resp.status = 201
    /\ resp.headers[ACAO] # obtained.headers[ACAO]
    /\ resp.headers[ACAH] = obtained.headers[ACAH]

====
